---- MODULE Spec2Model ----
(***************************************************************************)
(* Article-processing pipeline of the Financial News Intelligence System:  *)
(* NewsProcessingWorkflow.process_article threads an AgentState through    *)
(* DeduplicationAgent, EntityExtractionAgent, StockImpactAgent and         *)
(* StorageAgent, against a relational store (three tables) and a Chroma    *)
(* similarity index.                                                       *)
(*                                                                         *)
(* Floats are integer percentages (0.8 is 80, a cosine distance of 0.1 is  *)
(* 10).  External capabilities (embedding index, spaCy, the two LLM chains,*)
(* the database) answer nondeterministically from small sets.              *)
(***************************************************************************)
EXTENDS Integers, Sequences, FiniteSets, TLC

VARIABLES
    pc,             \* position of process_article: "idle", a node name, "done"
                    \* (it returned) or "raised" (an exception left it)
    state,          \* the AgentState dict threaded through the graph
    invoked,        \* node invocations of the current process_article call
    calls,          \* external capability calls of the current call, with outcome
    query_fault,    \* whether the index's nearest-neighbour query raises if made
    news_articles,  \* table news_articles (NewsArticleDB rows, insertion order)
    extracted_entities, \* table extracted_entities (ExtractedEntityDB rows)
    stock_impacts,  \* table stock_impacts (StockImpactDB rows)
    news_collection,    \* Chroma collection "news_articles": id -> page_content
    at_entry,       \* the tables and the collection when the current call began
    ncalls,         \* number of process_article calls started
    merge_call,     \* a direct call of a merge function: its name and argument
    merge_return,   \* <<>> until that call returns, then << its result >>
    workers         \* concurrent callers of process_article: for each its
                    \* position, its AgentState, the ids the index held when
                    \* its deduplication ran, and the calls it has started

\* What a direct call of a merge function reads and writes
merge_vars == <<merge_call, merge_return>>

\* What process_article reads and writes
pipeline_vars == <<pc, state, invoked, calls, query_fault, news_articles,
                   extracted_entities, stock_impacts, news_collection,
                   at_entry, ncalls>>

\* One caller's call of process_article, apart from the store it works on
call_vars == <<pc, state, invoked, calls, query_fault, at_entry, ncalls>>

vars == <<pc, state, invoked, calls, query_fault, news_articles,
          extracted_entities, stock_impacts, news_collection, at_entry, ncalls,
          merge_call, merge_return, workers>>

None == "None"

----------------------------------------------------------------------------
(* Bounds *)

MaxCalls == 2
MaxReliableCalls == 3
MaxMergeLen == 3
MaxConcurrentCalls == 2

----------------------------------------------------------------------------
(* Articles *)

ArticleIds == {"N1", "N2"}

ReliableIds == {"N1", "N2", "N3"}

\* What an article's title and body say.  Two texts of the same topic that
\* differ in variant are near-identical rewordings of each other.
Topics == {"bank", "misc"}

Variants == {"a", "b"}

\* The titles and bodies submitted: a banking story, a rewording of it, and
\* an unrelated story
Texts ==
    {t \in [topic : Topics, variant : Variants] :
        t.topic = "misc" => t.variant = "a"}

NewsArticle == [article_id : ArticleIds, text : Texts]

\* AgentState(article=article).model_dump()
AgentState(article) ==
    [article |-> article,
     is_duplicate |-> FALSE,
     duplicate_of |-> None,
     entities |-> <<>>,
     stock_impacts |-> <<>>,
     processing_metadata |-> <<>>,
     error |-> None]

\* processing_metadata[key] = value on a dict kept as a sequence of
\* <<key, value>> pairs without repeated keys
SetItem(d, key, value) ==
    IF \E i \in 1..Len(d) : d[i][1] = key
    THEN [i \in 1..Len(d) |-> IF d[i][1] = key THEN <<key, value>> ELSE d[i]]
    ELSE Append(d, <<key, value>>)

HasKey(d, key) == \E i \in 1..Len(d) : d[i][1] = key

GetItem(d, key) == d[CHOOSE i \in 1..Len(d) : d[i][1] = key][2]

----------------------------------------------------------------------------
(* Similarity index *)

ConfigSimilarityThreshold == 85

\* Names bound at module level in vector_store.py when find_duplicates runs
VectorStoreGlobals ==
    {"List", "Dict", "Tuple", "chromadb", "Settings",
     "GoogleGenerativeAIEmbeddings", "Chroma", "Document", "config",
     "NewsArticle", "logger", "VectorStoreManager"}

\* Cosine distance of the embeddings of two texts, in percent
Distance(t, u) ==
    IF t = u THEN 0
    ELSE IF t.topic = u.topic THEN 10
    ELSE 80

Min(a, b) == IF a < b THEN a ELSE b

Range(s) == {s[i] : i \in 1..Len(s)}

\* news_collection.similarity_search_with_score(query, k): the k nearest
\* documents, nearest first; documents at equal distance come in any order.
\* The value is the set of answers the index may give.
similarity_search_with_score(collection, query, k) ==
    LET ids == DOMAIN collection
        n == Min(k, Cardinality(ids))
        D(i) == Distance(collection[i], query)
    IN  { [j \in 1..n |-> [article_id |-> s[j], score |-> D(s[j])]] :
            s \in { t \in [1..n -> ids] :
                      /\ \A a, b \in 1..n : a < b => t[a] # t[b] /\ D(t[a]) <= D(t[b])
                      /\ \A i \in ids \ {t[j] : j \in 1..n} :
                            \A j \in 1..n : D(t[j]) <= D(i) } }

\* The outcome of a Python call: a returned value or a raised exception
Return(v) == [raised |-> None, value |-> v]
Raise(e) == [raised |-> e, value |-> <<>>]

NameError == "name 'SIMILARITY_THRESHOLD' is not defined"

\* VectorStoreManager.find_duplicates(article, threshold); results is the
\* answer the index gives if asked, fault whether asking raises.  queried
\* tells whether the index was asked.
find_duplicates(article, threshold, results, fault) ==
    IF threshold = None /\ "SIMILARITY_THRESHOLD" \notin VectorStoreGlobals
    THEN Raise(NameError) @@ [queried |-> FALSE]
    ELSE LET th == IF threshold = None THEN ConfigSimilarityThreshold ELSE threshold
             keep(r) == (100 - r.score) >= th /\ r.article_id # article.article_id
             kept == SelectSeq(results, keep)
         IN  IF fault
             THEN Return(<<>>) @@ [queried |-> TRUE]
             ELSE Return([j \in 1..Len(kept) |->
                            <<kept[j].article_id, 100 - kept[j].score>>])
                  @@ [queried |-> TRUE]

\* A deduplication stage without its try block: what find_duplicates raises
\* leaves the stage
DeduplicationAgent_process_no_try(s, results, fault) ==
    LET duplicates == find_duplicates(s.article, None, results, fault)
    IN  IF duplicates.raised # None
        THEN Raise(duplicates.raised)
        ELSE Return([s EXCEPT !.is_duplicate = duplicates.value # <<>>])

\* DeduplicationAgent.process(state).  Like every agent's process it is one
\* try block whose handler writes the exception into state["error"] and
\* returns the state it was given, so it returns and never raises.
DeduplicationAgent_process(s, results, fault) ==
    LET duplicates == find_duplicates(s.article, None, results, fault)
    IN  IF duplicates.raised # None
        THEN Return([s EXCEPT !.error = duplicates.raised])
        ELSE IF duplicates.value # <<>>
        THEN Return([s EXCEPT !.is_duplicate = TRUE,
                              !.duplicate_of = duplicates.value[1][1],
                              !.processing_metadata =
                                  SetItem(@, "duplicate_similarity",
                                          duplicates.value[1][2])])
        ELSE Return([s EXCEPT !.is_duplicate = FALSE])

----------------------------------------------------------------------------
(* Strings.  The texts that occur are a small vocabulary; case folding and *)
(* the substring relation are tabulated over it.                           *)

\* str.lower()
Lower(s) ==
    CASE s = "HDFC Bank" -> "hdfc bank"
      [] s = "RBI" -> "rbi"
      [] s = "Banking" -> "banking"
      [] s = "Reserve Bank" -> "reserve bank"
      [] s = "ICICI Bank" -> "icici bank"
      [] s = "State Bank" -> "state bank"
      [] s = "Reliance" -> "reliance"
      [] s = "TCS" -> "tcs"
      [] s = "Infosys" -> "infosys"
      [] s = "Wipro" -> "wipro"
      [] s = "Asian Paints" -> "asian paints"
      [] s = "ITC" -> "itc"
      [] s = "Larsen" -> "larsen"
      [] OTHER -> s

\* a in b, for lower-case a and b
In(a, b) ==
    \/ a = b
    \/ <<a, b>> \in {<<"bank", "hdfc bank">>, <<"bank", "icici bank">>,
                     <<"bank", "state bank">>, <<"bank", "banking">>,
                     <<"bank", "reserve bank">>}

\* company.upper().replace(" ", "")[:10]
UpperNoSpace10(s) ==
    CASE Lower(s) = "hdfc bank" -> "HDFCBANK"
      [] Lower(s) = "rbi" -> "RBI"
      [] Lower(s) = "banking" -> "BANKING"
      [] Lower(s) = "bank" -> "BANK"
      [] OTHER -> s

\* The sector keywords that occur in the lower-cased title and body
KeywordsIn(text) ==
    IF text.topic = "bank" THEN {"bank"} ELSE {}

\* The regulator names the title and body match at word boundaries
RegulatorsIn(text) ==
    IF text.topic = "bank" THEN {"RBI"} ELSE {}

----------------------------------------------------------------------------
(* Entity extraction *)

Entity(text, type, confidence) ==
    [text |-> text, type |-> type, confidence |-> confidence]

sector_keywords ==
    << <<"Banking", <<"bank", "banking", "credit", "loan", "mortgage">> >>,
       <<"Technology", <<"tech", "software", "ai", "cloud", "digital">> >>,
       <<"Pharmaceutical", <<"pharma", "drug", "medicine", "healthcare">> >>,
       <<"Energy", <<"oil", "gas", "energy", "power", "renewable">> >>,
       <<"Financial Services",
         <<"finance", "investment", "insurance", "asset management">> >>,
       <<"Automotive", <<"auto", "car", "vehicle", "automotive">> >>,
       <<"Telecommunications", <<"telecom", "mobile", "network", "5g">> >>,
       <<"Retail", <<"retail", "consumer", "e-commerce", "shopping">> >> >>

regulator_keywords ==
    <<"RBI", "Reserve Bank", "SEBI", "SEC", "Federal Reserve", "Fed",
      "Central Bank", "Monetary Authority", "Financial Authority">>

\* [F(x) for x in s if P(x)]
Collect(s, P(_), F(_)) ==
    LET kept == SelectSeq(s, P)
    IN  [i \in 1..Len(kept) |-> F(kept[i])]

\* The answers of the spaCy pipeline for a text: doc.ents as (text, label_)
SpacyAnswers(text) ==
    IF text.topic = "bank"
    THEN { << <<"HDFC Bank", "ORG">>, <<"India", "GPE">>, <<"Das", "PERSON">> >> }
    ELSE { <<>> }

\* EntityExtractionAgent.extract_with_spacy, given doc.ents
extract_with_spacy(ents) ==
    LET P(ent) == ent[2] \in {"ORG", "PERSON"}
        F(ent) == IF ent[2] = "ORG" THEN Entity(ent[1], "COMPANY", 80)
                  ELSE Entity(ent[1], "PERSON", 80)
    IN  Collect(ents, P, F)

\* EntityExtractionAgent.extract_sectors
extract_sectors(text) ==
    LET P(row) == \E j \in 1..Len(row[2]) : row[2][j] \in KeywordsIn(text)
        F(row) == Entity(row[1], "SECTOR", 70)
    IN  Collect(sector_keywords, P, F)

\* EntityExtractionAgent.extract_regulators
extract_regulators(text) ==
    LET P(regulator) == regulator \in RegulatorsIn(text)
        F(regulator) == Entity(regulator, "REGULATOR", 90)
    IN  Collect(regulator_keywords, P, F)

EmptyLists ==
    [companies |-> <<>>, sectors |-> <<>>, regulators |-> <<>>,
     people |-> <<>>, events |-> <<>>]

\* What the chain prompt | llm | parser may do for a text: raise, or return
\* parsed JSON, an object (its missing keys read as [] by .get) or an array
LlmExtractionAnswers(text) ==
    {[raised |-> "llm error", shape |-> "none", lists |-> EmptyLists],
     [raised |-> None, shape |-> "array", lists |-> EmptyLists]}
    \cup
    (IF text.topic = "bank"
     THEN {[raised |-> None, shape |-> "object",
            lists |-> [EmptyLists EXCEPT !.companies = <<"hdfc bank">>,
                                         !.sectors = <<"Banking">>,
                                         !.regulators = <<"RBI">>,
                                         !.events = <<"earnings">>]]}
     ELSE {[raised |-> None, shape |-> "object", lists |-> EmptyLists]})

\* EntityExtractionAgent.extract_with_llm, given what the chain does
extract_with_llm(answer) ==
    IF answer.raised # None
    THEN [shape |-> "object", lists |-> EmptyLists]
    ELSE [shape |-> answer.shape, lists |-> answer.lists]

\* EntityExtractionAgent.merge_entities
RECURSIVE merge_entities_from(_, _, _)
merge_entities_from(entities, i, merged) ==
    IF i > Len(entities) THEN merged
    ELSE LET entity == entities[i]
             key(e) == <<Lower(e.text), e.type>>
             seen == {j \in 1..Len(merged) : key(merged[j]) = key(entity)}
         IN  IF seen = {}
             THEN merge_entities_from(entities, i + 1, Append(merged, entity))
             ELSE LET j == CHOOSE j \in seen : TRUE
                  IN  merge_entities_from(entities, i + 1,
                        IF entity.confidence > merged[j].confidence
                        THEN [merged EXCEPT ![j].confidence = entity.confidence]
                        ELSE merged)

\* A merge that returns the first-seen entry of every key as it came,
\* whatever the confidences of the later entries of the key
merge_entities_first_seen(entities) ==
    LET key(e) == <<Lower(e.text), e.type>>
        numbered == [i \in 1..Len(entities) |-> <<i, entities[i]>>]
        first(p) == \A j \in 1..(p[1] - 1) : key(entities[j]) # key(p[2])
        kept == SelectSeq(numbered, first)
    IN  [i \in 1..Len(kept) |-> kept[i][2]]

merge_entities(entities) == merge_entities_from(entities, 1, <<>>)

\* An extraction stage whose handler writes the error into the copy that
\* already carries the spaCy and pattern entities
EntityExtractionAgent_process_dirty(s, spacy, llm) ==
    IF s.is_duplicate THEN Return(s)
    ELSE IF spacy.raised # None THEN Return([s EXCEPT !.error = spacy.raised])
    ELSE Return([s EXCEPT !.error = "extraction failed",
                          !.entities = merge_entities(
                              extract_with_spacy(spacy.value)
                              \o extract_sectors(s.article.text)
                              \o extract_regulators(s.article.text))])

\* An extraction stage that returns a state without the error it was given
EntityExtractionAgent_process_clearing(s, spacy, llm) ==
    IF s.is_duplicate THEN Return(s)
    ELSE IF spacy.raised # None THEN Return([s EXCEPT !.error = spacy.raised])
    ELSE Return([s EXCEPT !.error = None,
                          !.entities = merge_entities(
                              extract_with_spacy(spacy.value)
                              \o extract_sectors(s.article.text)
                              \o extract_regulators(s.article.text))])

\* EntityExtractionAgent.process(state): spacy is what self.nlp does (a
\* raised exception or doc.ents), llm what the extraction chain does
EntityExtractionAgent_process(s, spacy, llm) ==
    IF s.is_duplicate THEN Return(s)
    ELSE IF spacy.raised # None THEN Return([s EXCEPT !.error = spacy.raised])
    ELSE
      LET llm_entities == extract_with_llm(llm)
          T(x) == TRUE
          AsCompany(x) == Entity(x, "COMPANY", 90)
          AsSector(x) == Entity(x, "SECTOR", 90)
          AsRegulator(x) == Entity(x, "REGULATOR", 95)
          AsPerson(x) == Entity(x, "PERSON", 85)
          AsEvent(x) == Entity(x, "EVENT", 80)
          entities ==
              extract_with_spacy(spacy.value)
              \o extract_sectors(s.article.text)
              \o extract_regulators(s.article.text)
              \o Collect(llm_entities.lists.companies, T, AsCompany)
              \o Collect(llm_entities.lists.sectors, T, AsSector)
              \o Collect(llm_entities.lists.regulators, T, AsRegulator)
              \o Collect(llm_entities.lists.people, T, AsPerson)
              \o Collect(llm_entities.lists.events, T, AsEvent)
          merged == merge_entities(entities)
      IN  IF llm_entities.shape # "object"
          THEN Return([s EXCEPT !.error = "'list' object has no attribute 'get'"])
          ELSE Return([s EXCEPT !.entities = merged,
                                !.processing_metadata =
                                    SetItem(@, "entity_count", Len(merged))])

\* The capability calls EntityExtractionAgent.process makes, in order
EntityExtractionAgent_calls(s, spacy, llm) ==
    IF s.is_duplicate THEN <<>>
    ELSE IF spacy.raised # None THEN << <<"spacy", "raised">> >>
    ELSE << <<"spacy", "returned">>,
            <<"extraction_llm",
              IF llm.raised # None THEN "raised"
              ELSE IF llm.shape # "object" THEN "malformed" ELSE "returned">> >>

----------------------------------------------------------------------------
(* Stock impact analysis *)

\* config.CONFIDENCE_LEVELS
\* Levels in which a regulatory impact outranks a sector impact
CONFIDENCE_LEVELS_regulatory_first ==
    [direct |-> 100, sector_high |-> 80, sector_medium |-> 60,
     regulatory |-> 90, indirect |-> 30]

CONFIDENCE_LEVELS ==
    [direct |-> 100, sector_high |-> 80, sector_medium |-> 60,
     regulatory |-> 50, indirect |-> 30]

StockImpact(symbol, confidence, type, reasoning) ==
    [symbol |-> symbol, confidence |-> confidence, type |-> type,
     reasoning |-> reasoning]

company_symbols ==
    << <<"HDFC Bank", "HDFCBANK">>, <<"ICICI Bank", "ICICIBANK">>,
       <<"State Bank", "SBIN">>, <<"Reliance", "RELIANCE">>,
       <<"TCS", "TCS">>, <<"Infosys", "INFY">>, <<"Wipro", "WIPRO">>,
       <<"Asian Paints", "ASIANPAINT">>, <<"ITC", "ITC">>,
       <<"Larsen", "LT">> >>

sector_stocks ==
    << <<"Banking", <<"HDFCBANK", "ICICIBANK", "SBIN", "AXISBANK", "KOTAKBANK">> >>,
       <<"Technology", <<"TCS", "INFY", "WIPRO", "TECHM", "HCLTECH">> >>,
       <<"Pharmaceutical", <<"SUNPHARMA", "DRREDDY", "CIPLA", "DIVISLAB">> >>,
       <<"Energy", <<"RELIANCE", "ONGC", "BPCL", "IOC">> >>,
       <<"Financial Services",
         <<"BAJFINANCE", "BAJAJFINSV", "HDFCLIFE", "SBILIFE">> >>,
       <<"Automotive", <<"MARUTI", "M&M", "TATAMOTORS", "HEROMOTOCO">> >> >>

\* self.sector_stocks[sector], <<>> when sector is not a key
SectorStocks(sector) ==
    LET rows == {i \in 1..Len(sector_stocks) : sector_stocks[i][1] = sector}
    IN  IF rows = {} THEN <<>>
        ELSE sector_stocks[CHOOSE i \in rows : TRUE][2]

\* StockImpactAgent.map_company_to_symbol
map_company_to_symbol(company) ==
    LET hits == {i \in 1..Len(company_symbols) :
                    \/ In(Lower(company_symbols[i][1]), Lower(company))
                    \/ In(Lower(company), Lower(company_symbols[i][1]))}
    IN  IF hits # {}
        THEN company_symbols[CHOOSE i \in hits : \A j \in hits : i <= j][2]
        ELSE UpperNoSpace10(company)

\* StockImpactAgent.get_direct_impacts
get_direct_impacts(entities) ==
    LET P(e) == e.type = "COMPANY"
        F(e) == StockImpact(map_company_to_symbol(e.text),
                            CONFIDENCE_LEVELS.direct, "direct",
                            <<"Company", e.text, "directly mentioned">>)
    IN  Collect(entities, P, F)

\* One impact per symbol of every SECTOR entity that names a key of
\* sector_stocks, in entity order
RECURSIVE SectorWide(_, _, _, _)
SectorWide(entities, confidence, type, why) ==
    IF entities = <<>> THEN <<>>
    ELSE LET e == Head(entities)
             symbols == IF e.type = "SECTOR" THEN SectorStocks(e.text) ELSE <<>>
         IN  [i \in 1..Len(symbols) |->
                 StockImpact(symbols[i], confidence, type, why \o <<e.text>>)]
             \o SectorWide(Tail(entities), confidence, type, why)

\* StockImpactAgent.get_sector_impacts
get_sector_impacts(entities) ==
    SectorWide(entities, CONFIDENCE_LEVELS.sector_high, "sector", <<"Sector impacted">>)

\* StockImpactAgent.get_regulatory_impacts
get_regulatory_impacts(entities) ==
    LET IsRegulator(e) == e.type = "REGULATOR"
        regulators == SelectSeq(entities, IsRegulator)
    IN  IF regulators = <<>> THEN <<>>
        ELSE SectorWide(entities, CONFIDENCE_LEVELS.regulatory, "regulatory",
                        <<"Regulatory action by", regulators[1].text, "affecting">>)

\* What the chain impact_prompt | llm | parser may do: raise, or return a
\* JSON array of items; an item that lacks a required field of StockImpact
\* is marked valid = FALSE.  StockImpact takes any float as confidence and
\* any string as type, so an item with a confidence of 95 (for 0.95) and a
\* type of the model's own is valid too.  The answers depend on the wording.
ImpactAnswers(text) ==
    {Raise("llm error")}
    \cup
    (IF text.topic = "bank"
     THEN IF text.variant = "a"
          THEN {Return(<< [valid |-> TRUE, symbol |-> "SBIN", confidence |-> 90,
                           type |-> "regulatory", reasoning |-> <<"peer bank">>] >>),
                Return(<< [valid |-> TRUE, symbol |-> "HDFCBANK", confidence |-> 100,
                           type |-> "indirect", reasoning |-> <<"earnings">>],
                          [valid |-> FALSE, symbol |-> None, confidence |-> 50,
                           type |-> "sector", reasoning |-> <<>>] >>)}
          ELSE {Return(<< [valid |-> TRUE, symbol |-> "HDFCBANK", confidence |-> 9500,
                           type |-> "positive", reasoning |-> <<"strong results">>] >>)}
     ELSE {Return(<<>>)})

\* StockImpactAgent.analyze_with_llm, given what the chain does
analyze_with_llm(answer) ==
    IF answer.raised # None THEN <<>>
    ELSE IF \E i \in 1..Len(answer.value) : ~answer.value[i].valid THEN <<>>
    ELSE [i \in 1..Len(answer.value) |->
            StockImpact(answer.value[i].symbol, answer.value[i].confidence,
                        answer.value[i].type, answer.value[i].reasoning)]

\* StockImpactAgent.merge_impacts
RECURSIVE merge_impacts_from(_, _, _)
merge_impacts_from(impacts, i, seen) ==
    IF i > Len(impacts) THEN seen
    ELSE LET impact == impacts[i]
             at == {j \in 1..Len(seen) : seen[j].symbol = impact.symbol}
         IN  IF at = {}
             THEN merge_impacts_from(impacts, i + 1, Append(seen, impact))
             ELSE LET j == CHOOSE j \in at : TRUE
                  IN  merge_impacts_from(impacts, i + 1,
                        IF impact.confidence > seen[j].confidence
                        THEN [seen EXCEPT ![j] = impact]
                        ELSE seen)

\* A merge in which a later entry also replaces an earlier one of equal
\* confidence
merge_impacts_last_wins(impacts) ==
    LET numbered == [i \in 1..Len(impacts) |-> <<i, impacts[i]>>]
        first(p) == \A j \in 1..(p[1] - 1) : impacts[j].symbol # p[2].symbol
        kept == SelectSeq(numbered, first)
        of(symbol) == {i \in 1..Len(impacts) : impacts[i].symbol = symbol}
        best(symbol) ==
            CHOOSE i \in of(symbol) :
                \A j \in of(symbol) :
                    \/ impacts[j].confidence < impacts[i].confidence
                    \/ impacts[j].confidence = impacts[i].confidence /\ j <= i
    IN  [i \in 1..Len(kept) |-> impacts[best(kept[i][2].symbol)]]

merge_impacts(impacts) == merge_impacts_from(impacts, 1, <<>>)

\* An impact stage without the check of is_duplicate
StockImpactAgent_process_unguarded(s, llm) ==
    LET impacts ==
            merge_impacts(get_direct_impacts(s.entities)
                          \o get_sector_impacts(s.entities)
                          \o get_regulatory_impacts(s.entities)
                          \o analyze_with_llm(llm))
    IN  Return([s EXCEPT !.stock_impacts = impacts,
                         !.processing_metadata =
                             SetItem(@, "impact_count", Len(impacts))])

\* StockImpactAgent.process(state); llm is what the impact chain does
StockImpactAgent_process(s, llm) ==
    IF s.is_duplicate THEN Return(s)
    ELSE LET impacts ==
                 merge_impacts(get_direct_impacts(s.entities)
                               \o get_sector_impacts(s.entities)
                               \o get_regulatory_impacts(s.entities)
                               \o analyze_with_llm(llm))
         IN  Return([s EXCEPT !.stock_impacts = impacts,
                              !.processing_metadata =
                                  SetItem(@, "impact_count", Len(impacts))])

\* The capability calls StockImpactAgent.process makes
StockImpactAgent_calls(s, llm) ==
    IF s.is_duplicate THEN <<>>
    ELSE << <<"impact_llm",
              IF llm.raised # None THEN "raised"
              ELSE IF \E i \in 1..Len(llm.value) : ~llm.value[i].valid
                   THEN "malformed" ELSE "returned">> >>

----------------------------------------------------------------------------
(* Storage *)

\* The three tables as one value
Tables(articles, entities, impacts) ==
    [news_articles |-> articles, extracted_entities |-> entities,
     stock_impacts |-> impacts]

\* NewsArticleDB(...), the row StorageAgent.process adds for the article
db_article(s) ==
    [article_id |-> s.article.article_id,
     text |-> s.article.text,
     is_duplicate |-> s.is_duplicate,
     duplicate_of |-> s.duplicate_of]

\* ExtractedEntityDB(...), one row per entity unless the article is a
\* duplicate
db_entities(s) ==
    IF s.is_duplicate THEN <<>>
    ELSE [i \in 1..Len(s.entities) |->
            [article_id |-> s.article.article_id,
             entity_text |-> s.entities[i].text,
             entity_type |-> s.entities[i].type,
             confidence |-> s.entities[i].confidence]]

\* StockImpactDB(...), one row per impact unless the article is a duplicate
db_impacts(s) ==
    IF s.is_duplicate THEN <<>>
    ELSE [i \in 1..Len(s.stock_impacts) |->
            [article_id |-> s.article.article_id,
             stock_symbol |-> s.stock_impacts[i].symbol,
             confidence |-> s.stock_impacts[i].confidence,
             impact_type |-> s.stock_impacts[i].type,
             reasoning |-> s.stock_impacts[i].reasoning]]

\* session.add(row) for every row, then a flush whose INSERTs succeed
Inserted(s, tables) ==
    Tables(Append(tables.news_articles, db_article(s)),
           tables.extracted_entities \o db_entities(s),
           tables.stock_impacts \o db_impacts(s))

\* The unique index on news_articles.article_id rejects the article's row
\* A column article_id without unique=True
NoUniqueIndex(s, tables) == FALSE

Conflicts(s, tables) ==
    \E i \in 1..Len(tables.news_articles) :
        tables.news_articles[i].article_id = s.article.article_id

\* A session that is not rolled back: what was inserted before the failure
\* (the article's row and the entity rows) stays
transaction_without_rollback(s, tables, db_fault) ==
    IF db_fault \/ Conflicts(s, tables)
    THEN [raised |-> "database is unavailable",
          tables |-> [Inserted(s, tables) EXCEPT !.stock_impacts = tables.stock_impacts]]
    ELSE [raised |-> None, tables |-> Inserted(s, tables)]

\* A storage stage that writes nothing for a state that carries an error
transaction_unless_error(s, tables, db_fault) ==
    IF db_fault
    THEN [raised |-> "database is unavailable", tables |-> tables]
    ELSE IF Conflicts(s, tables)
    THEN [raised |-> "UNIQUE constraint failed: news_articles.article_id",
          tables |-> tables]
    ELSE [raised |-> None,
          tables |-> IF s.error # None THEN tables ELSE Inserted(s, tables)]

\* The body of "with get_db_session() as session" in StorageAgent.process
\* and get_db_session around it: the rows are added to the session and
\* committed together; db_fault is a failure of the database at commit.
\* A second row with a stored article_id violates the unique index.
\* On any failure the session is rolled back and the exception re-raised.
transaction(s, tables, db_fault) ==
    IF db_fault
    THEN [raised |-> "database is unavailable", tables |-> tables]
    ELSE IF Conflicts(s, tables)
    THEN [raised |-> "UNIQUE constraint failed: news_articles.article_id",
          tables |-> tables]
    ELSE [raised |-> None, tables |-> Inserted(s, tables)]

\* How a call of add_article goes: the embedding or the index may fail
\* before the article document is written, or after it while the entity
\* documents are written
IndexOutcomes == {"ok", "fails", "fails_on_entities"}

\* VectorStoreManager.add_article: the document is written under the
\* article's id, replacing a document of the same id
\* An index that accepts the article and does not keep it
add_article_dropping(collection, article, entities, outcome) ==
    [raised |-> None, collection |-> collection]

add_article(collection, article, entities, outcome) ==
    LET added == [i \in DOMAIN collection \cup {article.article_id} |->
                    IF i = article.article_id THEN article.text ELSE collection[i]]
    IN  IF outcome = "fails"
        THEN [raised |-> "embedding failed", collection |-> collection]
        ELSE IF outcome = "fails_on_entities" /\ entities # <<>>
        THEN [raised |-> "embedding failed", collection |-> added]
        ELSE [raised |-> None, collection |-> added]

\* A storage stage that writes the index before it opens the transaction
StorageAgent_process_index_first(s, tables, collection, db_fault, outcome) ==
    LET tx == transaction(s, tables, db_fault)
        T(e) == TRUE
        Text(e) == e.text
        ix == add_article(collection, s.article, Collect(s.entities, T, Text), outcome)
        failed(e) == Return([s EXCEPT !.error = e,
                                      !.processing_metadata = SetItem(@, "stored", FALSE)])
        stored == Return([s EXCEPT !.processing_metadata = SetItem(@, "stored", TRUE)])
    IN  IF ix.raised # None
        THEN failed(ix.raised) @@
             [tables |-> tables, collection |-> ix.collection,
              calls |-> << <<"add_article", "raised">> >>]
        ELSE IF tx.raised # None
        THEN failed(tx.raised) @@
             [tables |-> tx.tables, collection |-> ix.collection,
              calls |-> << <<"add_article", "returned">>, <<"transaction", "raised">> >>]
        ELSE stored @@
             [tables |-> tx.tables, collection |-> ix.collection,
              calls |-> << <<"add_article", "returned">>, <<"transaction", "returned">> >>]

\* A storage stage whose handler returns a fresh state for the article in
\* place of the state it was given
StorageAgent_process_fresh_state(s, tables, collection, db_fault, outcome) ==
    LET tx == transaction(s, tables, db_fault)
        T(e) == TRUE
        Text(e) == e.text
        ix == add_article(collection, s.article, Collect(s.entities, T, Text), outcome)
        failed(e) == Return([AgentState(s.article) EXCEPT
                                !.error = e,
                                !.processing_metadata = SetItem(@, "stored", FALSE)])
        stored == Return([s EXCEPT !.processing_metadata = SetItem(@, "stored", TRUE)])
    IN  IF tx.raised # None
        THEN failed(tx.raised) @@
             [tables |-> tx.tables, collection |-> collection,
              calls |-> << <<"transaction", "raised">> >>]
        ELSE IF ix.raised # None
        THEN failed(ix.raised) @@
             [tables |-> tx.tables, collection |-> ix.collection,
              calls |-> << <<"transaction", "returned">>, <<"add_article", "raised">> >>]
        ELSE stored @@
             [tables |-> tx.tables, collection |-> ix.collection,
              calls |-> << <<"transaction", "returned">>, <<"add_article", "returned">> >>]

\* StorageAgent.process(state): its outcome (the returned state), the
\* tables and the collection after it, and the capability calls made
StorageAgent_process(s, tables, collection, db_fault, outcome) ==
    LET tx == transaction(s, tables, db_fault)
        T(e) == TRUE
        Text(e) == e.text
        ix == add_article(collection, s.article, Collect(s.entities, T, Text), outcome)
        failed(e) == Return([s EXCEPT !.error = e,
                                      !.processing_metadata = SetItem(@, "stored", FALSE)])
        stored == Return([s EXCEPT !.processing_metadata = SetItem(@, "stored", TRUE)])
    IN  IF tx.raised # None
        THEN failed(tx.raised) @@
             [tables |-> tx.tables, collection |-> collection,
              calls |-> << <<"transaction", "raised">> >>]
        ELSE IF s.is_duplicate
        THEN stored @@
             [tables |-> tx.tables, collection |-> collection,
              calls |-> << <<"transaction", "returned">> >>]
        ELSE IF ix.raised # None
        THEN failed(ix.raised) @@
             [tables |-> tx.tables, collection |-> ix.collection,
              calls |-> << <<"transaction", "returned">>, <<"add_article", "raised">> >>]
        ELSE stored @@
             [tables |-> tx.tables, collection |-> ix.collection,
              calls |-> << <<"transaction", "returned">>, <<"add_article", "returned">> >>]

----------------------------------------------------------------------------
(* The workflow graph *)

END == "done"

entry_point == "deduplication"

\* A graph whose edge out of deduplication bypasses entity extraction
add_edge_bypassing(node) ==
    CASE node = "deduplication" -> "impact_analysis"
      [] node = "entity_extraction" -> "impact_analysis"
      [] node = "impact_analysis" -> "storage"
      [] node = "storage" -> "done"

\* A graph with an edge from storage back to itself
add_edge_retrying(node) ==
    CASE node = "deduplication" -> "entity_extraction"
      [] node = "entity_extraction" -> "impact_analysis"
      [] node = "impact_analysis" -> "storage"
      [] node = "storage" -> "storage"

\* The edges added in NewsProcessingWorkflow._build_graph
add_edge(node) ==
    CASE node = "deduplication" -> "entity_extraction"
      [] node = "entity_extraction" -> "impact_analysis"
      [] node = "impact_analysis" -> "storage"
      [] node = "storage" -> END

Invocation(node, input, output) ==
    [node |-> node, input |-> input, output |-> output]

\* What the external capabilities may do.  In a reliable environment every
\* capability answers, and answers output the code can parse.
SpacyOutcomes(text, reliable) ==
    {Return(ents) : ents \in SpacyAnswers(text)}
    \cup (IF reliable THEN {} ELSE {Raise("spacy error")})

LlmExtractionOutcomes(text, reliable) ==
    {a \in LlmExtractionAnswers(text) :
        reliable => a.raised = None /\ a.shape = "object"}

ImpactOutcomes(text, reliable) ==
    {a \in ImpactAnswers(text) :
        reliable => a.raised = None /\ \A i \in 1..Len(a.value) : a.value[i].valid}

\* The callers that run concurrently with each other
Processors == {"p1", "p2"}

\* No concurrent caller has called yet
NoWorkers ==
    [p \in Processors |->
        [pc |-> "idle",
         state |-> AgentState([article_id |-> "N1", text |-> [topic |-> "misc", variant |-> "a"]]),
         seen |-> {},
         started |-> 0]]

Init ==
    /\ pc = "idle"
    /\ state = AgentState([article_id |-> "N1", text |-> [topic |-> "misc", variant |-> "a"]])
    /\ invoked = <<>>
    /\ calls = <<>>
    /\ query_fault = FALSE
    /\ news_articles = <<>>
    /\ extracted_entities = <<>>
    /\ stock_impacts = <<>>
    /\ news_collection = <<>>
    /\ at_entry = [tables |-> Tables(<<>>, <<>>, <<>>), collection |-> <<>>]
    /\ ncalls = 0
    /\ merge_call = [fn |-> "none", arg |-> <<>>]
    /\ merge_return = <<>>
    /\ workers = NoWorkers

\* process_article(article) up to graph.invoke: a caller submits an article
\* while no other call is running
ProcessArticle(ids, limit, reliable) ==
    /\ pc \in {"idle", END, "raised"}
    /\ ncalls < limit
    /\ \E article \in [article_id : ids, text : Texts],
          fault \in (IF reliable THEN {FALSE} ELSE BOOLEAN) :
          /\ state' = AgentState(article)
          /\ query_fault' = fault
    /\ pc' = entry_point
    /\ invoked' = <<>>
    /\ calls' = <<>>
    /\ at_entry' = [tables |-> Tables(news_articles, extracted_entities, stock_impacts),
                    collection |-> news_collection]
    /\ ncalls' = ncalls + 1
    /\ UNCHANGED <<news_articles, extracted_entities, stock_impacts, news_collection>>
    /\ UNCHANGED merge_vars
    /\ UNCHANGED workers

\* graph.invoke running one node: the node's return value becomes the
\* state and the edge out of the node is followed; an exception the node
\* raises leaves graph.invoke and process_article
RunNode(node, out) ==
    IF out.raised # None
    THEN /\ pc' = "raised"
         /\ UNCHANGED <<state, invoked>>
    ELSE /\ pc' = add_edge(node)
         /\ state' = out.value
         /\ invoked' = Append(invoked, Invocation(node, state, out.value))

\* _deduplication_node
Deduplication ==
    /\ pc = "deduplication"
    /\ \E results \in similarity_search_with_score(news_collection, state.article.text, 5) :
          LET fd == find_duplicates(state.article, None, results, query_fault)
          IN  /\ RunNode("deduplication",
                         DeduplicationAgent_process(state, results, query_fault))
              /\ calls' = calls \o
                    (IF fd.queried
                     THEN << <<"similarity_search",
                               IF query_fault THEN "raised" ELSE "returned">> >>
                     ELSE <<>>)
    /\ UNCHANGED <<query_fault, news_articles, extracted_entities, stock_impacts,
                   news_collection, at_entry, ncalls>>
    /\ UNCHANGED merge_vars
    /\ UNCHANGED workers

\* _entity_extraction_node
EntityExtraction(reliable) ==
    /\ pc = "entity_extraction"
    /\ \E spacy \in SpacyOutcomes(state.article.text, reliable),
          llm \in LlmExtractionOutcomes(state.article.text, reliable) :
          /\ RunNode("entity_extraction",
                     EntityExtractionAgent_process(state, spacy, llm))
          /\ calls' = calls \o EntityExtractionAgent_calls(state, spacy, llm)
    /\ UNCHANGED <<query_fault, news_articles, extracted_entities, stock_impacts,
                   news_collection, at_entry, ncalls>>
    /\ UNCHANGED merge_vars
    /\ UNCHANGED workers

\* _impact_analysis_node
ImpactAnalysis(reliable) ==
    /\ pc = "impact_analysis"
    /\ \E llm \in ImpactOutcomes(state.article.text, reliable) :
          /\ RunNode("impact_analysis", StockImpactAgent_process(state, llm))
          /\ calls' = calls \o StockImpactAgent_calls(state, llm)
    /\ UNCHANGED <<query_fault, news_articles, extracted_entities, stock_impacts,
                   news_collection, at_entry, ncalls>>
    /\ UNCHANGED merge_vars
    /\ UNCHANGED workers

\* _storage_node, and process_article returning the final state
Storage(reliable) ==
    /\ pc = "storage"
    /\ \E db_fault \in (IF reliable THEN {FALSE} ELSE BOOLEAN),
          outcome \in (IF reliable THEN {"ok"} ELSE IndexOutcomes) :
          LET r == StorageAgent_process(
                       state,
                       Tables(news_articles, extracted_entities, stock_impacts),
                       news_collection, db_fault, outcome)
          IN  /\ RunNode("storage", r)
              /\ calls' = calls \o r.calls
              /\ news_articles' = r.tables.news_articles
              /\ extracted_entities' = r.tables.extracted_entities
              /\ stock_impacts' = r.tables.stock_impacts
              /\ news_collection' = r.collection
    /\ UNCHANGED <<query_fault, at_entry, ncalls>>
    /\ UNCHANGED merge_vars
    /\ UNCHANGED workers

\* Callers submit articles one after another; any capability may fail
Next ==
    \/ ProcessArticle(ArticleIds, MaxCalls, FALSE)
    \/ Deduplication
    \/ EntityExtraction(FALSE)
    \/ ImpactAnalysis(FALSE)
    \/ Storage(FALSE)

Spec == Init /\ [][Next]_vars

\* The same program in an environment where every capability answers and
\* only the program's own code can fail, over one more article id and call
ReliableNext ==
    \/ ProcessArticle(ReliableIds, MaxReliableCalls, TRUE)
    \/ Deduplication
    \/ EntityExtraction(TRUE)
    \/ ImpactAnalysis(TRUE)
    \/ Storage(TRUE)

ReliableSpec == Init /\ [][ReliableNext]_vars

\* The node graph.invoke is running returns or raises
NodeReturns ==
    /\ pc \in {"deduplication", "entity_extraction", "impact_analysis", "storage"}
    /\ pc' \in {add_edge(pc), "raised"}

\* The same callers and faults, where every external call returns or
\* raises: graph.invoke does not stay in a node for ever
FairSpec == Init /\ [][Next]_vars /\ WF_pc(NodeReturns)

----------------------------------------------------------------------------
(* The merge functions called directly, on every list up to MaxMergeLen    *)
(* entries over a few values that collide and tie in every way             *)

SeqsUpTo(S, n) == UNION {[1..k -> S] : k \in 0..n}

\* Entities whose texts differ only in case, of two types, at three
\* confidences
MergeEntityInputs ==
    SeqsUpTo({Entity(text, type, confidence) :
                text \in {"RBI", "rbi"}, type \in {"REGULATOR", "SECTOR"},
                confidence \in {70, 90, 95}},
             MaxMergeLen)

\* Impacts on two symbols, of two kinds each with its reasoning, at three
\* confidences
MergeImpactInputs ==
    SeqsUpTo({StockImpact(symbol, confidence, kind[1], kind[2]) :
               symbol \in {"SBIN", "HDFCBANK"},
               confidence \in {50, 80, 100},
               kind \in {<<"sector", <<"Sector impacted", "Banking">> >>,
                         <<"regulatory",
                           <<"Regulatory action by", "RBI", "affecting", "Banking">> >>}},
             MaxMergeLen)

MergeInit ==
    /\ pc = "idle"
    /\ state = AgentState([article_id |-> "N1", text |-> [topic |-> "misc", variant |-> "a"]])
    /\ invoked = <<>>
    /\ calls = <<>>
    /\ query_fault = FALSE
    /\ news_articles = <<>>
    /\ extracted_entities = <<>>
    /\ stock_impacts = <<>>
    /\ news_collection = <<>>
    /\ at_entry = [tables |-> Tables(<<>>, <<>>, <<>>), collection |-> <<>>]
    /\ ncalls = 0
    /\ workers = NoWorkers
    /\ merge_return = <<>>
    /\ \/ \E entities \in MergeEntityInputs :
              merge_call = [fn |-> "merge_entities", arg |-> entities]
       \/ \E impacts \in MergeImpactInputs :
              merge_call = [fn |-> "merge_impacts", arg |-> impacts]

\* agent.merge_entities(entities)
MergeEntities ==
    /\ merge_call.fn = "merge_entities"
    /\ merge_return = <<>>
    /\ merge_return' = <<merge_entities(merge_call.arg)>>
    /\ UNCHANGED merge_call
    /\ UNCHANGED pipeline_vars
    /\ UNCHANGED workers

\* agent.merge_impacts(impacts)
MergeImpacts ==
    /\ merge_call.fn = "merge_impacts"
    /\ merge_return = <<>>
    /\ merge_return' = <<merge_impacts(merge_call.arg)>>
    /\ UNCHANGED merge_call
    /\ UNCHANGED pipeline_vars
    /\ UNCHANGED workers

MergeNext ==
    \/ MergeEntities
    \/ MergeImpacts

MergeSpec == MergeInit /\ [][MergeNext]_vars

----------------------------------------------------------------------------
(* The stages on their own: graph.invoke entered at the first node with a  *)
(* new article, or process(state) of the extraction or the impact agent    *)
(* applied to the states an AgentState can hold, a flagged duplicate among *)
(* them, and the later stages then applied to what the stage returned.     *)

StageEntities ==
    {<<>>,
     <<Entity("HDFC Bank", "COMPANY", 90), Entity("Banking", "SECTOR", 100)>>,
     <<Entity("RBI", "REGULATOR", 100), Entity("Banking", "SECTOR", 100)>>,
     <<Entity("Technology", "SECTOR", 90), Entity("RBI", "REGULATOR", 95),
       Entity("SEBI", "REGULATOR", 95), Entity("Banking", "SECTOR", 90)>>,
     <<Entity("RBI", "REGULATOR", 100), Entity("Fintech", "SECTOR", 90)>>}

StageInputs ==
    {[AgentState(article) EXCEPT
         !.is_duplicate = duplicate,
         !.duplicate_of = IF duplicate
                          THEN CHOOSE id \in ArticleIds : id # article.article_id
                          ELSE None,
         !.entities = entities,
         !.error = error] :
        article \in NewsArticle, duplicate \in BOOLEAN,
        entities \in StageEntities, error \in {None, NameError}}

StageInit ==
    /\ \/ /\ pc = entry_point
          /\ state \in {AgentState(article) : article \in NewsArticle}
       \/ /\ pc \in {"entity_extraction", "impact_analysis"}
          /\ state \in StageInputs
    /\ invoked = <<>>
    /\ calls = <<>>
    /\ query_fault = FALSE
    /\ news_articles = <<>>
    /\ extracted_entities = <<>>
    /\ stock_impacts = <<>>
    /\ news_collection = <<>>
    /\ at_entry = [tables |-> Tables(<<>>, <<>>, <<>>), collection |-> <<>>]
    /\ ncalls = 1
    /\ merge_call = [fn |-> "none", arg |-> <<>>]
    /\ merge_return = <<>>
    /\ workers = NoWorkers

StageNext ==
    \/ Deduplication
    \/ EntityExtraction(FALSE)
    \/ ImpactAnalysis(FALSE)
    \/ Storage(FALSE)

StageSpec == StageInit /\ [][StageNext]_vars

----------------------------------------------------------------------------
(* Concurrent callers.  The dashboard and the API call process_article on  *)
(* one store; nothing in the workflow or the agents takes a lock.  A       *)
(* caller's stages interleave with the other caller's, and so do the two   *)
(* writes of its storage stage, the transaction and the indexing.  The     *)
(* capabilities answer; the database enforces its unique index.            *)

\* process_article calls started by all callers
Started == workers["p1"].started + workers["p2"].started

\* Caller w after graph.invoke has run one node with outcome out
After(w, node, out) ==
    [w EXCEPT !.pc = IF out.raised # None THEN "raised" ELSE add_edge(node),
              !.state = IF out.raised # None THEN @ ELSE out.value]

Becomes(p, w) == workers' = [workers EXCEPT ![p] = w]

\* process_article(article) up to graph.invoke, by caller p
Submit(p) ==
    /\ workers[p].pc \in {"idle", END, "raised"}
    /\ Started < MaxConcurrentCalls
    /\ \E article \in NewsArticle :
          Becomes(p, [pc |-> entry_point, state |-> AgentState(article),
                      seen |-> {}, started |-> workers[p].started + 1])
    /\ UNCHANGED <<news_articles, extracted_entities, stock_impacts, news_collection>>
    /\ UNCHANGED call_vars
    /\ UNCHANGED merge_vars

\* _deduplication_node of caller p, on the index as it is now
ConcurrentDeduplication(p) ==
    /\ workers[p].pc = "deduplication"
    /\ \E results \in similarity_search_with_score(
                          news_collection, workers[p].state.article.text, 5) :
          Becomes(p, [After(workers[p], "deduplication",
                            DeduplicationAgent_process(workers[p].state, results, FALSE))
                      EXCEPT !.seen = DOMAIN news_collection])
    /\ UNCHANGED <<news_articles, extracted_entities, stock_impacts, news_collection>>
    /\ UNCHANGED call_vars
    /\ UNCHANGED merge_vars

\* _entity_extraction_node of caller p
ConcurrentEntityExtraction(p) ==
    /\ workers[p].pc = "entity_extraction"
    /\ \E spacy \in SpacyOutcomes(workers[p].state.article.text, TRUE),
          llm \in LlmExtractionOutcomes(workers[p].state.article.text, TRUE) :
          Becomes(p, After(workers[p], "entity_extraction",
                           EntityExtractionAgent_process(workers[p].state, spacy, llm)))
    /\ UNCHANGED <<news_articles, extracted_entities, stock_impacts, news_collection>>
    /\ UNCHANGED call_vars
    /\ UNCHANGED merge_vars

\* _impact_analysis_node of caller p
ConcurrentImpactAnalysis(p) ==
    /\ workers[p].pc = "impact_analysis"
    /\ \E llm \in ImpactOutcomes(workers[p].state.article.text, TRUE) :
          Becomes(p, After(workers[p], "impact_analysis",
                           StockImpactAgent_process(workers[p].state, llm)))
    /\ UNCHANGED <<news_articles, extracted_entities, stock_impacts, news_collection>>
    /\ UNCHANGED call_vars
    /\ UNCHANGED merge_vars

\* _storage_node of caller p up to the end of its with block: the
\* transaction on the tables as they are now.  If it raises, or the article
\* is a duplicate, the stage returns in this step; otherwise the call of
\* add_article is still to come.
Commit(p) ==
    /\ workers[p].pc = "storage"
    /\ LET w == workers[p]
           tables == Tables(news_articles, extracted_entities, stock_impacts)
           tx == transaction(w.state, tables, FALSE)
           r == StorageAgent_process(w.state, tables, news_collection, FALSE, "ok")
       IN  /\ news_articles' = tx.tables.news_articles
           /\ extracted_entities' = tx.tables.extracted_entities
           /\ stock_impacts' = tx.tables.stock_impacts
           /\ IF tx.raised # None \/ w.state.is_duplicate
              THEN Becomes(p, After(w, "storage", r))
              ELSE Becomes(p, [w EXCEPT !.pc = "indexing"])
    /\ UNCHANGED news_collection
    /\ UNCHANGED call_vars
    /\ UNCHANGED merge_vars

\* The rest of _storage_node of caller p: add_article on the index as it is
\* now, then stored = True
Index(p) ==
    /\ workers[p].pc = "indexing"
    /\ LET w == workers[p]
           T(e) == TRUE
           Text(e) == e.text
           ix == add_article(news_collection, w.state.article,
                             Collect(w.state.entities, T, Text), "ok")
       IN  /\ news_collection' = ix.collection
           /\ Becomes(p, [w EXCEPT
                            !.pc = add_edge("storage"),
                            !.state = IF ix.raised # None
                                      THEN [@ EXCEPT !.error = ix.raised,
                                                     !.processing_metadata =
                                                         SetItem(@, "stored", FALSE)]
                                      ELSE [@ EXCEPT !.processing_metadata =
                                                         SetItem(@, "stored", TRUE)]])
    /\ UNCHANGED <<news_articles, extracted_entities, stock_impacts>>
    /\ UNCHANGED call_vars
    /\ UNCHANGED merge_vars

ConcurrentNext ==
    \E p \in Processors :
        \/ Submit(p)
        \/ ConcurrentDeduplication(p)
        \/ ConcurrentEntityExtraction(p)
        \/ ConcurrentImpactAnalysis(p)
        \/ Commit(p)
        \/ Index(p)

ConcurrentSpec == Init /\ [][ConcurrentNext]_vars

----------------------------------------------------------------------------
(* Properties *)

StageOrder == <<"deduplication", "entity_extraction", "impact_analysis", "storage">>

Nodes == Range(StageOrder)

Called(capability, outcome) == <<capability, outcome>> \in Range(calls)

Stored(s) ==
    /\ HasKey(s.processing_metadata, "stored")
    /\ GetItem(s.processing_metadata, "stored") = TRUE

\* C1: in every process_article call the four nodes are invoked once each in
\* the order deduplication, entity extraction, impact analysis, storage, the
\* first on the initial state and each later one on the state the previous
\* one returned, whatever is_duplicate and error are; the call returns the
\* state storage returned.
C1_StagesRunOnceInOrder ==
    /\ Len(invoked) <= Len(StageOrder)
    /\ \A i \in 1..Len(invoked) :
          /\ invoked[i].node = StageOrder[i]
          /\ invoked[i].input =
                (IF i = 1 THEN AgentState(state.article) ELSE invoked[i - 1].output)
    /\ pc \in Nodes => pc = StageOrder[Len(invoked) + 1]
    /\ pc = END => Len(invoked) = Len(StageOrder) /\ state = invoked[Len(invoked)].output

\* C1 witness: a call has returned with error set by a stage before
\* extraction, and extraction, impact analysis and storage still ran.
C1_Witness ==
    /\ pc = END
    /\ invoked[1].output.error # None
    /\ invoked[2].output.entities # <<>>
    /\ invoked[3].output.stock_impacts # <<>>
    /\ Stored(state)

\* C2: no exception leaves a stage, whatever the capabilities and the
\* database do: at every node, for every behaviour of the environment, the
\* stage returns a state, and process_article never ends by raising.
C2_NoExceptionLeavesAStage ==
    /\ pc # "raised"
    /\ pc = "deduplication" =>
          \A fault \in BOOLEAN :
             \A results \in similarity_search_with_score(
                                news_collection, state.article.text, 5) :
                DeduplicationAgent_process(state, results, fault).raised = None
    /\ pc = "entity_extraction" =>
          \A spacy \in SpacyOutcomes(state.article.text, FALSE),
             llm \in LlmExtractionOutcomes(state.article.text, FALSE) :
                EntityExtractionAgent_process(state, spacy, llm).raised = None
    /\ pc = "impact_analysis" =>
          \A llm \in ImpactOutcomes(state.article.text, FALSE) :
                StockImpactAgent_process(state, llm).raised = None
    /\ pc = "storage" =>
          \A db_fault \in BOOLEAN, outcome \in IndexOutcomes :
                StorageAgent_process(
                    state, Tables(news_articles, extracted_entities, stock_impacts),
                    news_collection, db_fault, outcome).raised = None

\* C2 witness: a call has returned although the reasoning chain raised and
\* the transaction failed, and the failure shows in error.
C2_Witness ==
    /\ pc = END
    /\ Called("impact_llm", "raised")
    /\ Called("transaction", "raised")
    /\ state.error = "database is unavailable"

\* Every capability the call used answered well-formed output, the index
\* would have answered a query, and the transaction committed
AllSucceeded ==
    /\ ~query_fault
    /\ \A i \in 1..Len(calls) : calls[i][2] = "returned"
    /\ Called("transaction", "returned")

Similarity(t, u) == 100 - Distance(t, u)

\* The ids other than the article's own whose indexed text is similar to
\* the article's at or above the configured threshold
Candidates(article, collection) ==
    {i \in DOMAIN collection \ {article.article_id} :
        Similarity(collection[i], article.text) >= ConfigSimilarityThreshold}

\* C3 (as claimed): an article processed when the index held nothing similar
\* at or above the threshold, all capabilities and the transaction
\* succeeding, is returned with is_duplicate false, error None, stored true.
C3_FreshArticleReturnsWithoutError ==
    (/\ pc = END
     /\ AllSucceeded
     /\ \A i \in DOMAIN at_entry.collection :
           Similarity(at_entry.collection[i], state.article.text)
               < ConfigSimilarityThreshold)
    => (~state.is_duplicate /\ state.error = None /\ Stored(state))

\* A node of the current call has just to run, so the next step is its
InStage == pc \in Nodes

DuplicateNeverSet ==
    /\ ~state.is_duplicate
    /\ state.duplicate_of = None
    /\ \A i \in 1..Len(news_articles) : ~news_articles[i].is_duplicate

\* C7 (as claimed): deduplication sets is_duplicate exactly when the query
\* returns a candidate of another id at or above the threshold, and
\* otherwise leaves duplicate_of unset.
C7_DuplicateIffCandidate ==
    pc = "entity_extraction" =>
        /\ state.is_duplicate <=>
              (~query_fault /\ Candidates(state.article, news_collection) # {})
        /\ ~state.is_duplicate => state.duplicate_of = None

\* C8 (as claimed): when several candidates pass the filter, duplicate_of is
\* a candidate of highest similarity and duplicate_similarity is its
\* similarity.
C8_MostSimilarCandidateChosen ==
    LET passing == Candidates(state.article, news_collection)
        sim(i) == Similarity(news_collection[i], state.article.text)
    IN  (pc = "entity_extraction" /\ ~query_fault /\ Cardinality(passing) >= 2) =>
            /\ state.duplicate_of \in {i \in passing : \A j \in passing : sim(j) <= sim(i)}
            /\ HasKey(state.processing_metadata, "duplicate_similarity")
            /\ GetItem(state.processing_metadata, "duplicate_similarity")
                  = sim(state.duplicate_of)

\* What str(e) is for the exception the index raises on a query
QueryError == "similarity search failed"

\* C9 (as claimed): if the index raises on the nearest-neighbour query,
\* deduplication returns its input with error describing that exception and
\* nothing else changed.
C9_IndexFailureRecorded ==
    (pc = "entity_extraction" /\ query_fault) =>
        state = [AgentState(state.article) EXCEPT !.error = QueryError]

\* C10 (as claimed): an article stored and indexed as a non-duplicate and
\* processed again with the same id and the same title and body is returned
\* with is_duplicate true.
C10_ResubmissionIsDuplicate ==
    (/\ pc = END
     /\ \E i \in 1..Len(at_entry.tables.news_articles) :
           LET row == at_entry.tables.news_articles[i]
           IN  /\ row.article_id = state.article.article_id
               /\ row.text = state.article.text
               /\ ~row.is_duplicate
     /\ state.article.article_id \in DOMAIN at_entry.collection
     /\ at_entry.collection[state.article.article_id] = state.article.text)
    => state.is_duplicate

\* Every article stored as a non-duplicate is in the index
EarlierArticlesIndexed ==
    \A i \in 1..Len(news_articles) :
        ~news_articles[i].is_duplicate =>
            news_articles[i].article_id \in DOMAIN news_collection

\* C11 (as claimed): with articles processed one after another, every earlier
\* non-duplicate article is in the index when a later article's
\* deduplication runs, and an article whose only neighbour at or above the
\* threshold is an earlier stored non-duplicate n1 ends with is_duplicate
\* true and duplicate_of = n1.
C11_LaterArticleSeesEarlierOne ==
    /\ pc = "deduplication" => EarlierArticlesIndexed
    /\ \A n1 \in DOMAIN at_entry.collection :
          (/\ pc = END
           /\ Candidates(state.article, at_entry.collection) = {n1}
           /\ \E i \in 1..Len(at_entry.tables.news_articles) :
                 /\ at_entry.tables.news_articles[i].article_id = n1
                 /\ ~at_entry.tables.news_articles[i].is_duplicate)
          => (state.is_duplicate /\ state.duplicate_of = n1)

\* The key under which merge_entities identifies entries
EntityKey(e) == <<Lower(e.text), e.type>>

\* A direct call of fn has returned
Returned(fn) == merge_call.fn = fn /\ Len(merge_return) = 1

\* C12: merge_entities returns exactly one entry per distinct key
\* (lower-cased text, type), in the order in which the keys first occur in
\* the input, each entry with the text of the first-seen entry of its key
\* and the maximum confidence over all input entries of that key.
C12_MergeEntitiesOnePerKey ==
    Returned("merge_entities") =>
        LET input == merge_call.arg
            merged == merge_return[1]
            of(k) == {i \in 1..Len(input) : EntityKey(input[i]) = k}
            first(k) == CHOOSE i \in of(k) : \A j \in of(k) : i <= j
        IN  /\ {EntityKey(merged[j]) : j \in 1..Len(merged)}
                  = {EntityKey(input[i]) : i \in 1..Len(input)}
            /\ \A a, b \in 1..Len(merged) :
                  a < b => /\ EntityKey(merged[a]) # EntityKey(merged[b])
                           /\ first(EntityKey(merged[a])) < first(EntityKey(merged[b]))
            /\ \A j \in 1..Len(merged) :
                  LET k == EntityKey(merged[j])
                  IN  /\ merged[j].text = input[first(k)].text
                      /\ merged[j].type = input[first(k)].type
                      /\ \A i \in of(k) : input[i].confidence <= merged[j].confidence
                      /\ \E i \in of(k) : input[i].confidence = merged[j].confidence

\* C12 witness: three entries of two keys were merged into two; the first
\* key recurred in other case with a higher confidence, and its entry came
\* back first, with the first-seen text and the higher confidence.
C12_Witness ==
    /\ Returned("merge_entities")
    /\ Len(merge_call.arg) = 3
    /\ Len(merge_return[1]) = 2
    /\ \E i \in 2..3 :
          /\ EntityKey(merge_call.arg[i]) = EntityKey(merge_call.arg[1])
          /\ merge_call.arg[i].text # merge_call.arg[1].text
          /\ merge_call.arg[i].confidence > merge_call.arg[1].confidence
          /\ merge_return[1][1].confidence = merge_call.arg[i].confidence
    /\ merge_return[1][1].text = merge_call.arg[1].text

\* C13: merge_impacts returns exactly one entry per distinct symbol, and it
\* is, as a whole record, the first input entry among those of the symbol
\* that have the maximum confidence.
C13_MergeImpactsFirstOfMaximum ==
    Returned("merge_impacts") =>
        LET input == merge_call.arg
            merged == merge_return[1]
            of(symbol) == {i \in 1..Len(input) : input[i].symbol = symbol}
            highest(symbol) ==
                {i \in of(symbol) :
                    \A j \in of(symbol) : input[j].confidence <= input[i].confidence}
            winner(symbol) ==
                CHOOSE i \in highest(symbol) : \A j \in highest(symbol) : i <= j
        IN  /\ {merged[j].symbol : j \in 1..Len(merged)}
                  = {input[i].symbol : i \in 1..Len(input)}
            /\ \A a, b \in 1..Len(merged) :
                  a # b => merged[a].symbol # merged[b].symbol
            /\ \A j \in 1..Len(merged) :
                  merged[j] = input[winner(merged[j].symbol)]

\* C13 witness: three impacts on one symbol were merged into one; the
\* second had a strictly higher confidence than the first and replaced it
\* as a whole record, the third tied with the second and did not.
C13_Witness ==
    /\ Returned("merge_impacts")
    /\ Len(merge_call.arg) = 3
    /\ Len(merge_return[1]) = 1
    /\ merge_call.arg[2].confidence > merge_call.arg[1].confidence
    /\ merge_call.arg[3].confidence = merge_call.arg[2].confidence
    /\ merge_call.arg[3].type # merge_call.arg[2].type
    /\ merge_call.arg[2].type # merge_call.arg[1].type
    /\ merge_return[1][1] = merge_call.arg[2]

\* The impacts the three table-driven strategies give for a list of
\* entities, merged
ImpactsWithoutReasoning(entities) ==
    merge_impacts(get_direct_impacts(entities)
                  \o get_sector_impacts(entities)
                  \o get_regulatory_impacts(entities))

\* The reasoning chain raised, or answered items that are no StockImpact
ReasoningFailed ==
    /\ Len(invoked) >= 3
    /\ Called("impact_llm", "raised") \/ Called("impact_llm", "malformed")

\* When the reasoning chain fails, impact analysis leaves error as it was
\* and returns the impacts of the other three strategies alone
ReasoningFailureOmitsItsImpacts ==
    ReasoningFailed =>
        /\ invoked[3].output.error = invoked[3].input.error
        /\ invoked[3].output.stock_impacts
              = ImpactsWithoutReasoning(invoked[3].input.entities)

\* C14 (as claimed): if the reasoning capability raises or its output cannot
\* be parsed, process still returns a state with error = None, whose
\* stock_impacts is the merge of the direct, sector and regulatory impacts.
C14_ReasoningFailureLeavesNoError ==
    ReasoningFailed =>
        /\ invoked[3].output.error = None
        /\ invoked[3].output.stock_impacts
              = ImpactsWithoutReasoning(invoked[3].input.entities)

\* An extraction chain that answers an object of five empty lists
FiveEmptyLists == [raised |-> None, shape |-> "object", lists |-> EmptyLists]

\* C15 (as claimed): whenever the extraction chain raises or returns
\* something other than the object of five lists, entity extraction returns
\* what it returns when the chain answers five empty lists: entities merged
\* from the pattern and tagger results alone, error not set.
C15_LlmExtractionFailureIsEmptyLists ==
    (/\ Len(invoked) >= 2
     /\ Called("extraction_llm", "raised") \/ Called("extraction_llm", "malformed"))
    => \E ents \in SpacyAnswers(invoked[2].input.article.text) :
          invoked[2].output
              = EntityExtractionAgent_process(
                    invoked[2].input, Return(ents), FiveEmptyLists).value

\* C16 (as claimed): if the tagger raises, entity extraction still sets
\* entities to the merge of the pattern and language-model results and does
\* not set error: it returns what it returns when the tagger finds nothing.
C16_TaggerFailureIsIndependent ==
    (Len(invoked) >= 2 /\ Called("spacy", "raised"))
    => \E llm \in LlmExtractionOutcomes(invoked[2].input.article.text, TRUE) :
          invoked[2].output
              = EntityExtractionAgent_process(
                    invoked[2].input, Return(<<>>), llm).value

\* The rows a table holds beyond those it held when the call began
RowsSince(before, table) == SubSeq(table, Len(before) + 1, Len(table))

\* The rows the current call has written to the three tables
Written ==
    Tables(RowsSince(at_entry.tables.news_articles, news_articles),
           RowsSince(at_entry.tables.extracted_entities, extracted_entities),
           RowsSince(at_entry.tables.stock_impacts, stock_impacts))

NothingWritten == Written = Tables(<<>>, <<>>, <<>>)

\* The rows written are the article's row, a row for every entity and a row
\* for every impact of state s (none of the latter two for a duplicate)
AllWritten(s) ==
    LET entities == IF s.is_duplicate THEN <<>> ELSE s.entities
        impacts == IF s.is_duplicate THEN <<>> ELSE s.stock_impacts
        id == s.article.article_id
    IN  /\ Len(Written.news_articles) = 1
        /\ Written.news_articles[1].article_id = id
        /\ Len(Written.extracted_entities) = Len(entities)
        /\ \A i \in 1..Len(entities) :
              Written.extracted_entities[i]
                  = [article_id |-> id, entity_text |-> entities[i].text,
                     entity_type |-> entities[i].type,
                     confidence |-> entities[i].confidence]
        /\ Len(Written.stock_impacts) = Len(impacts)
        /\ \A i \in 1..Len(impacts) :
              Written.stock_impacts[i]
                  = [article_id |-> id, stock_symbol |-> impacts[i].symbol,
                     confidence |-> impacts[i].confidence,
                     impact_type |-> impacts[i].type,
                     reasoning |-> impacts[i].reasoning]

\* C17: persistence is all-or-nothing per article: whatever the storage
\* stage of a call did, the tables keep the rows they had and hold beyond
\* them either the article's row with every entity row and every impact row
\* of the state storage received, or no row of this call at all.
C17_PersistenceAllOrNothing ==
    /\ SubSeq(news_articles, 1, Len(at_entry.tables.news_articles))
          = at_entry.tables.news_articles
    /\ SubSeq(extracted_entities, 1, Len(at_entry.tables.extracted_entities))
          = at_entry.tables.extracted_entities
    /\ SubSeq(stock_impacts, 1, Len(at_entry.tables.stock_impacts))
          = at_entry.tables.stock_impacts
    /\ \/ NothingWritten
       \/ Len(invoked) = 4 /\ AllWritten(invoked[4].input)

\* C17 witness: the transaction of a call failed with the article's row, its
\* entity rows and its impact rows to write, the tables holding an earlier
\* article, and no row of the call is in the tables.
C17_Witness ==
    /\ pc = END
    /\ Called("transaction", "raised")
    /\ invoked[4].input.entities # <<>>
    /\ invoked[4].input.stock_impacts # <<>>
    /\ at_entry.tables.news_articles # <<>>
    /\ NothingWritten

\* str(e) of the exceptions the transaction and the indexing raise
StorageErrors ==
    {"database is unavailable",
     "UNIQUE constraint failed: news_articles.article_id",
     "embedding failed"}

\* The transaction or the indexing of the current call raised
StorageFailed ==
    /\ Len(invoked) = 4
    /\ Called("transaction", "raised") \/ Called("add_article", "raised")

\* C18: if the transaction or the indexing after it raises, the storage
\* stage returns a state with error set to that exception and stored =
\* false, whose is_duplicate, duplicate_of, entities and stock_impacts are
\* those it was given.
C18_StorageFailureReturnsInput ==
    StorageFailed =>
        LET given == invoked[4].input
            returned == invoked[4].output
        IN  /\ returned.error \in StorageErrors
            /\ HasKey(returned.processing_metadata, "stored")
            /\ GetItem(returned.processing_metadata, "stored") = FALSE
            /\ returned.is_duplicate = given.is_duplicate
            /\ returned.duplicate_of = given.duplicate_of
            /\ returned.entities = given.entities
            /\ returned.stock_impacts = given.stock_impacts

\* C18 witness: the transaction committed, the indexing raised, and the
\* call returned that error with stored = false and the entities and
\* impacts the earlier stages had found.
C18_Witness ==
    /\ pc = END
    /\ Called("transaction", "returned")
    /\ Called("add_article", "raised")
    /\ state.error = "embedding failed"
    /\ ~Stored(state)
    /\ state.entities # <<>>
    /\ state.stock_impacts # <<>>

\* C19 (as claimed): whenever the returned state reports stored = false,
\* nothing durable was recorded for the article by this call: no article,
\* entity or impact row was written and no entry was added to the index;
\* the entities and impacts found are still returned.
C19_NotStoredMeansNothingDurable ==
    (/\ pc = END
     /\ HasKey(state.processing_metadata, "stored")
     /\ GetItem(state.processing_metadata, "stored") = FALSE)
    => /\ NothingWritten
       /\ news_collection = at_entry.collection
       /\ state.entities = invoked[4].input.entities
       /\ state.stock_impacts = invoked[4].input.stock_impacts

\* The table news_articles holds a row for state s that carries its
\* is_duplicate and duplicate_of
ArticleRowOf(s, articles) ==
    \E i \in 1..Len(articles) :
        /\ articles[i].article_id = s.article.article_id
        /\ articles[i].is_duplicate = s.is_duplicate
        /\ articles[i].duplicate_of = s.duplicate_of

\* C20: the article record is always persisted: for every processed article
\* whose transaction does not fail, duplicate or not, error set by an
\* earlier stage or not, the table afterwards holds the article's row with
\* the state's is_duplicate and duplicate_of.  The first conjunct is about
\* the call that ran; the second about the storage stage on the state it is
\* about to receive and on that state with any other is_duplicate,
\* duplicate_of and error.
C20_ArticleRowAlwaysPersisted ==
    /\ (Len(invoked) = 4 /\ Called("transaction", "returned"))
          => ArticleRowOf(invoked[4].output, news_articles)
    /\ pc = "storage" =>
          \A duplicate \in BOOLEAN, of \in {None} \cup ReliableIds,
             error \in {None, state.error},
             db_fault \in BOOLEAN, outcome \in IndexOutcomes :
                LET s == [state EXCEPT !.is_duplicate = duplicate,
                                       !.duplicate_of = of,
                                       !.error = error]
                    r == StorageAgent_process(
                             s, Tables(news_articles, extracted_entities, stock_impacts),
                             news_collection, db_fault, outcome)
                IN  <<"transaction", "returned">> \in Range(r.calls)
                        => ArticleRowOf(r.value, r.tables.news_articles)

\* C20 witness: a second article, with error set by deduplication and again
\* by a failed indexing, has returned; its transaction committed and its
\* row is in the table beside the first article's.
C20_Witness ==
    /\ pc = END
    /\ Called("transaction", "returned")
    /\ invoked[1].output.error # None
    /\ Called("add_article", "raised")
    /\ Len(news_articles) = 2
    /\ news_articles[2].article_id = state.article.article_id
    /\ news_articles[2].is_duplicate = state.is_duplicate
    /\ news_articles[2].duplicate_of = state.duplicate_of

\* Every document of the index is the text of an article whose row was
\* committed as a non-duplicate
IndexedArticlesAreStored ==
    \A id \in DOMAIN news_collection :
        \E i \in 1..Len(news_articles) :
            /\ news_articles[i].article_id = id
            /\ news_articles[i].text = news_collection[id]
            /\ ~news_articles[i].is_duplicate

\* C21: an article is written to the index only after its transaction has
\* committed and only if it is not a duplicate.  In the call that ran, the
\* index changes only in a storage stage whose transaction returned, on a
\* state that is no duplicate, and add_article is called after the
\* transaction; the same holds of the storage stage applied to the state it
\* is about to receive with either value of is_duplicate.
C21_IndexedOnlyAfterCommit ==
    /\ IndexedArticlesAreStored
    /\ news_collection # at_entry.collection =>
          /\ Len(invoked) = 4
          /\ Called("transaction", "returned")
          /\ ~invoked[4].input.is_duplicate
    /\ \A i \in 1..Len(calls) :
          calls[i][1] = "add_article" =>
              \E j \in 1..(i - 1) : calls[j] = <<"transaction", "returned">>
    /\ pc = "storage" =>
          \A duplicate \in BOOLEAN, db_fault \in BOOLEAN, outcome \in IndexOutcomes :
              LET s == [state EXCEPT !.is_duplicate = duplicate]
                  r == StorageAgent_process(
                           s, Tables(news_articles, extracted_entities, stock_impacts),
                           news_collection, db_fault, outcome)
              IN  r.collection # news_collection =>
                      /\ ~duplicate
                      /\ <<"transaction", "returned">> \in Range(r.calls)

\* C21 witness: with an earlier article stored and indexed, the transaction
\* of a second article failed; the call returned and the index holds the
\* first article alone.
C21_Witness ==
    /\ pc = END
    /\ Called("transaction", "raised")
    /\ DOMAIN news_collection # {}
    /\ state.article.article_id \notin DOMAIN news_collection
    /\ news_collection = at_entry.collection

\* A company text and a table name match when either contains the other,
\* case folded
NameMatches(name, text) ==
    In(Lower(name), Lower(text)) \/ In(Lower(text), Lower(name))

MatchesTable(text) ==
    \E i \in 1..Len(company_symbols) : NameMatches(company_symbols[i][1], text)

\* The symbol of the first table row whose name matches
TableSymbol(text) ==
    LET first == CHOOSE i \in 1..Len(company_symbols) :
                    /\ NameMatches(company_symbols[i][1], text)
                    /\ \A j \in 1..(i - 1) : ~NameMatches(company_symbols[j][1], text)
    IN  company_symbols[first][2]

\* The ranges the data model gives a stock impact: a confidence in [0,1]
\* and one of the four impact kinds
WithinRanges(impact) ==
    /\ impact.confidence \in 0..100
    /\ impact.type \in {"direct", "sector", "regulatory", "indirect"}

\* Every COMPANY entity of state s that matches the table has in the
\* impacts its own entry: the table symbol, kind direct, the direct
\* confidence
DirectImpactsPresent(s) ==
    \A i \in 1..Len(s.entities) :
        (s.entities[i].type = "COMPANY" /\ MatchesTable(s.entities[i].text)) =>
            \E k \in 1..Len(s.stock_impacts) :
                /\ s.stock_impacts[k].symbol = TableSymbol(s.entities[i].text)
                /\ s.stock_impacts[k].type = "direct"
                /\ s.stock_impacts[k].confidence = CONFIDENCE_LEVELS.direct

\* The direct impacts are present whenever every impact returned is within
\* the ranges of the data model
DirectImpactSurvivesInRangeAnswers ==
    (/\ Len(invoked) >= 3
     /\ \A k \in 1..Len(invoked[3].output.stock_impacts) :
           WithinRanges(invoked[3].output.stock_impacts[k]))
    => DirectImpactsPresent(invoked[3].output)

\* C22 (as claimed): for a non-duplicate article every COMPANY entity whose
\* text matches a name of the name-to-symbol table has in the merged
\* stock_impacts an entry for the table symbol with kind direct and the
\* direct confidence, whatever the other sources emit for that symbol.
C22_DirectImpactSurvives ==
    (Len(invoked) >= 3 /\ ~invoked[3].input.is_duplicate)
    => DirectImpactsPresent(invoked[3].output)

\* C26 (as claimed): every stock impact of the returned state and every
\* impact row persisted has a confidence within [0,1] and a kind among
\* direct, sector, regulatory, indirect, those of the reasoning capability
\* included.
C26_ImpactsWithinRanges ==
    /\ \A k \in 1..Len(state.stock_impacts) : WithinRanges(state.stock_impacts[k])
    /\ \A k \in 1..Len(stock_impacts) :
          /\ stock_impacts[k].confidence \in 0..100
          /\ stock_impacts[k].impact_type \in {"direct", "sector", "regulatory", "indirect"}

----------------------------------------------------------------------------
(* Concurrent callers *)

Finished(p) == workers[p].pc = END

HasRow(article_id) ==
    \E i \in 1..Len(news_articles) : news_articles[i].article_id = article_id

\* Two callers, each on its first article: near-identical texts under
\* distinct ids, and each ran its deduplication while the index held neither
RacedOnDuplicates ==
    /\ \A p \in Processors : Finished(p) /\ workers[p].started = 1
    /\ workers["p1"].state.article.article_id # workers["p2"].state.article.article_id
    /\ Similarity(workers["p1"].state.article.text, workers["p2"].state.article.text)
          >= ConfigSimilarityThreshold
    /\ \A p, q \in Processors : workers[q].state.article.article_id \notin workers[p].seen

BothKept ==
    \A p \in Processors :
        /\ workers[p].state.is_duplicate = FALSE
        /\ Stored(workers[p].state)
        /\ HasRow(workers[p].state.article.article_id)
        /\ workers[p].state.article.article_id \in DOMAIN news_collection

\* C23: when two callers process near-identical articles with distinct ids
\* and both run their deduplication before either article is indexed, both
\* articles end persisted and indexed with is_duplicate = false.
C23_ConcurrentDuplicatesBothKept == RacedOnDuplicates => BothKept

C23_Witness == RacedOnDuplicates /\ BothKept

UniqueArticleIds ==
    \A i, j \in 1..Len(news_articles) :
        news_articles[i].article_id = news_articles[j].article_id => i = j

\* Caller p leaves its storage stage in this step, having found a row with
\* its article_id
ConflictingStep(p) ==
    /\ workers[p].pc = "storage"
    /\ workers'[p].pc # "storage"
    /\ HasRow(workers[p].state.article.article_id)

ConflictRejected(p) ==
    /\ <<news_articles, extracted_entities, stock_impacts>>' =
           <<news_articles, extracted_entities, stock_impacts>>
    /\ news_collection' = news_collection
    /\ workers'[p].pc = END
    /\ workers'[p].state.error # None
    /\ ~Stored(workers'[p].state)
    /\ HasKey(workers'[p].state.processing_metadata, "stored")

\* C24: under every interleaving the store never holds two rows with the
\* same article_id, and a processing that finds its article_id taken ends
\* with error set and stored = false, having written no row and nothing to
\* the index.
C24_ArticleIdUnique ==
    /\ []UniqueArticleIds
    /\ [][\A p \in Processors : ConflictingStep(p) => ConflictRejected(p)]_vars

C24_Witness ==
    /\ \A p \in Processors : Finished(p)
    /\ workers["p1"].state.article.article_id = workers["p2"].state.article.article_id
    /\ Stored(workers["p1"].state)
    /\ workers["p2"].state.error = "UNIQUE constraint failed: news_articles.article_id"
    /\ ~Stored(workers["p2"].state)
    /\ Len(news_articles) = 1
    /\ Len(extracted_entities) = Len(workers["p1"].state.entities)

----------------------------------------------------------------------------
(* The stages on a flagged duplicate *)

SkippingStages == {"entity_extraction", "impact_analysis"}

\* C25: when is_duplicate is true on entry, the extraction stage and the
\* impact stage return a state equal to their input in every field, call no
\* capability, and add no entity_count or impact_count.
C25_DuplicatePassesUnchanged ==
    [][(pc \in SkippingStages /\ state.is_duplicate) =>
          /\ state' = state
          /\ calls' = calls
          /\ pc' = add_edge(pc)
          /\ ~HasKey(state'.processing_metadata, "entity_count")
          /\ ~HasKey(state'.processing_metadata, "impact_count")]_vars

\* C25 witness: a flagged duplicate went through both stages
C25_Witness ==
    /\ pc = "storage"
    /\ Len(invoked) = 2
    /\ invoked[1].node = "entity_extraction"
    /\ invoked[2].node = "impact_analysis"
    /\ \A i \in 1..2 : invoked[i].input.is_duplicate /\ invoked[i].output = invoked[i].input
    /\ state.entities # <<>>
    /\ state.stock_impacts = <<>>
    /\ calls = <<>>

----------------------------------------------------------------------------
(* One pass *)

Capabilities ==
    {"similarity_search", "spacy", "extraction_llm", "impact_llm",
     "transaction", "add_article"}

TimesCalled(capability) ==
    Cardinality({i \in 1..Len(calls) : calls[i][1] = capability})

\* The nodes run so far in this call are the first ones of the stage
\* order, each once
SinglePass ==
    /\ Len(invoked) <= Len(StageOrder)
    /\ \A i \in 1..Len(invoked) : invoked[i].node = StageOrder[i]
    /\ \A i \in 1..Len(calls) : calls[i][1] \in Capabilities
    /\ \A capability \in Capabilities : TimesCalled(capability) <= 1

\* C27: whenever every external call returns or raises, processing an
\* article ends after a single pass over the stages, and the query, the
\* tagger, the extraction chain, the reasoning chain, the transaction and
\* the indexing call are each made at most once for the article.
C27_TerminatesAfterOnePass ==
    /\ []SinglePass
    /\ InStage ~> (pc = END)

\* C27 witness: a call ended with every stage run once and the tagger, both
\* chains, the transaction and the indexing call made once each, the
\* transaction having raised
C27_Witness ==
    /\ pc = END
    /\ Len(invoked) = 4
    /\ \A capability \in {"spacy", "extraction_llm", "impact_llm", "transaction"} :
          TimesCalled(capability) = 1
    /\ Called("transaction", "raised")
    /\ ~Stored(state)

----------------------------------------------------------------------------
(* The error field *)

\* The capability calls made in this step
NewCalls == SubSeq(calls', Len(calls) + 1, Len(calls'))

\* The outcomes of a capability that reach the handler of a stage's
\* process method; the others are handled inside the helper that calls it
ReachStageHandler ==
    {<<"spacy", "raised">>, <<"extraction_llm", "malformed">>,
     <<"transaction", "raised">>, <<"add_article", "raised">>}

\* The stage run in this step caught an exception in its process method
StageCaught ==
    \/ /\ pc = "deduplication"
       /\ \E results \in similarity_search_with_score(
                             news_collection, state.article.text, 5) :
             find_duplicates(state.article, None, results, query_fault).raised # None
    \/ \E i \in 1..Len(NewCalls) : NewCalls[i] \in ReachStageHandler

\* C28: no stage clears error, and a stage returns with error set exactly
\* when error was set on entry or the stage caught an exception; so the
\* returned error is set if and only if at least one stage caught one.
C28_ErrorSetIffCaught ==
    [][InStage =>
          /\ state.error # None => state'.error # None
          /\ state'.error # None <=> (state.error # None \/ StageCaught)]_vars

\* C28 witness: a call ended with error set by the deduplication stage and
\* stored = true set by the storage stage
C28_Witness ==
    /\ pc = END
    /\ Len(invoked) = 4
    /\ invoked[1].input.error = None
    /\ invoked[1].output.error # None
    /\ state.error = invoked[1].output.error
    /\ Stored(state)

----------------------------------------------------------------------------
(* Regulatory impacts *)

ImpactStagesRun ==
    {i \in 1..Len(invoked) :
        invoked[i].node = "impact_analysis" /\ ~invoked[i].input.is_duplicate}

\* The records the reasoning chain can have returned for this text
ReasonedImpacts(text) ==
    UNION {Range(analyze_with_llm(a)) : a \in ImpactAnswers(text)}

RuleBasedRegulatoryLoses(given, returned) ==
    LET sector == get_sector_impacts(given.entities)
        rule == get_regulatory_impacts(given.entities)
    IN  /\ \A k \in 1..Len(rule) :
              /\ rule[k].type = "regulatory"
              /\ \E j \in 1..Len(sector) :
                    /\ sector[j].symbol = rule[k].symbol
                    /\ sector[j].confidence > rule[k].confidence
              /\ \A m \in 1..Len(returned.stock_impacts) :
                    returned.stock_impacts[m] # rule[k]
        /\ \A m \in 1..Len(returned.stock_impacts) :
              returned.stock_impacts[m].type = "regulatory" =>
                  returned.stock_impacts[m] \in ReasonedImpacts(given.article.text)

\* C30: no rule-based regulatory impact survives the merge: each symbol it
\* names also has a sector record of strictly higher confidence emitted
\* before it, so every regulatory entry of the final stock_impacts comes
\* from the reasoning chain.
C30_RegulatoryOnlyFromReasoning ==
    \A i \in ImpactStagesRun :
        RuleBasedRegulatoryLoses(invoked[i].input, invoked[i].output)

\* C30 witness: the impact stage ran on a regulator and a sector of the
\* table; the rules emitted regulatory records and the result holds one
\* regulatory entry, the one the reasoning chain returned
C30_Witness ==
    \E i \in ImpactStagesRun :
        LET returned == invoked[i].output.stock_impacts
        IN  /\ get_regulatory_impacts(invoked[i].input.entities) # <<>>
            /\ \E m \in 1..Len(returned) :
                  /\ returned[m].type = "regulatory"
                  /\ returned[m].symbol = "SBIN"
                  /\ returned[m].confidence = 90
            /\ \E m \in 1..Len(returned) :
                  returned[m].type = "sector" /\ returned[m].symbol = "HDFCBANK"

====
